---------------------------- MODULE Spec2Model ----------------------------
(***************************************************************************)
(* Learning Thermostat (Home Assistant custom component).                  *)
(*                                                                         *)
(* State machine of the controller entity (climate.py), the training log   *)
(* (data_collector.py), the model manager (ml_core.py) and the entry       *)
(* set-up (__init__.py).  The event loop runs one handler at a time; a     *)
(* coroutine is atomic between two awaits, so every action below is the    *)
(* code between two suspension points.  Executor jobs (CSV write,          *)
(* prediction, training) run on worker threads and are separate actions.   *)
(*                                                                         *)
(* Temperatures are integers in hundredths of a degree, times are minutes. *)
(***************************************************************************)
EXTENDS Integers, Sequences, FiniteSets, TLC

\* ------------------------------------------------------------------ bounds
\* Horizon of the wall clock in the timing specification (minutes).
MaxTime == 66
\* Horizon of the wall clock in the other specifications (minutes).
ShortHorizon == 6
\* Environment operations that can add a row to the log, per behaviour:
\* in the controller, the model-manager and the timing specification.
MaxOps == 2
MaxOpsML == 1
MaxOpsTiming == 1
\* Coroutines suspended at an await at the same time.
MaxInflight == 2
\* Rows already in the log when the entry is set up (ML specification).
MaxHistoric == 21
\* Unload/set-up cycles per behaviour.
MaxRestarts == 1
\* set_temperature calls per behaviour in the expiry specification.
MaxOpsExpiry == 1

\* --------------------------------------------------------------- constants
HVAC_MODE_OFF == "off"
HVAC_MODE_AUTO == "auto"
HVAC_MODES == {HVAC_MODE_OFF, HVAC_MODE_AUTO}
PRESET_CONTROLLING == "Controlling"
PRESET_LEARNING_CONTROLLING == "Learning & Controlling"
PRESETS == {PRESET_CONTROLLING, PRESET_LEARNING_CONTROLLING}
\* SCAN_INTERVAL = timedelta(minutes=5)
SCAN_INTERVAL == 5
\* config.get("override_duration", 60), minutes
OverrideDuration == 60
\* self._target_temperature = 21.0
DefaultTarget == 2100
\* if len(df) < 20
MinRecords == 20
\* Python's None where the model needs an integer (a temperature, a time).
NoTemp == -1
NoTime == -1

\* Values the platform can hand to the operations ("heat" is a mode of the
\* climate domain that is not in HVAC_MODES).
TempInputs == {1800, 2300}
HvacModeInputs == {HVAC_MODE_OFF, HVAC_MODE_AUTO, "heat"}
PresetInputs == {PRESET_CONTROLLING, PRESET_LEARNING_CONTROLLING, "Invalid"}

\* The monitored sensors, and what hass.states.get(entity_id) can be for one:
\* None (no state object), or a state whose string is STATE_UNAVAILABLE,
\* STATE_UNKNOWN or a reading.
SensorEntities == {"sensor.temperature", "binary_sensor.window"}
NoStateObject == "None"
STATE_UNAVAILABLE == "unavailable"
STATE_UNKNOWN == "unknown"
SensorStateInputs == {NoStateObject, STATE_UNAVAILABLE, STATE_UNKNOWN, "on", "21.5"}

\* sensor_entities = list(set(...)): the iteration order of a set of strings
\* depends on the process's hash seed, so the list is one of the orders of the
\* configured sensors, not the same one in every run.
SensorOrders ==
    {ids \in [1..Cardinality(SensorEntities) -> SensorEntities] :
        \A i, j \in DOMAIN ids : i /= j => ids[i] /= ids[j]}
\* The order of the run that created a log that exists before the set-up.
FirstOrder == <<"sensor.temperature", "binary_sensor.window">>

VARIABLES
    now,                  \* datetime.now()
    lifecycle,            \* "down" | "up": the config entry is set up
    hvac_mode,            \* LearningThermostat._hvac_mode
    preset_mode,          \* LearningThermostat._preset_mode
    target_temperature,   \* LearningThermostat._target_temperature
    is_override_active,   \* LearningThermostat._is_override_active
    override_end_time,    \* LearningThermostat._override_end_time
    prediction_task,      \* LearningThermostat._prediction_task (next fire time of its timer)
    timers,               \* live async_track_time_interval timers (their next fire times)
    lastState,            \* the state RestoreEntity hands back (last async_write_ha_state)
    actTarget,            \* the target climate entity's temperature attribute
    csvExists,            \* os.path.exists(storage_path)
    csvRows,              \* the data rows of the CSV training log
    csvHeader,            \* the header line of the CSV training log (<<>>: none)
    csvRowFields,         \* for each data row, the columns its values were written in
    sensor_entity_ids,    \* DataCollector._sensor_entity_ids (the order of this run)
    model,                \* MLCore.model
    is_trained,           \* MLCore.is_trained
    modelFile,            \* the persisted .joblib artifact (0: absent)
    trainPc,              \* position of the _train_model_sync executor job
    trainResult,          \* how _train_model_sync ended: "true" (returned True), a
                          \* reason it logged and returned False for ("no_file",
                          \* "unreadable", "insufficient", "save_failed"), or "raised"
    trainRows,            \* history: len(df) the training job read (NoTemp: none)
    trainBefore,          \* history: model and is_trained when the training job started
    inflight,             \* coroutines suspended at an await
    budget,               \* environment operations left (bounds the behaviour)
    restarts,             \* unload/set-up cycles so far (bounds the behaviour)
    t0,                   \* history: time of the last accepted set_temperature
    autoSinceOverride,    \* history: the mode has been auto ever since that call
    lastSent,             \* history: the value of the last set_temperature call
                          \* the controller issued to the actuator (NoTemp: none)
    lastOp,               \* history: the last step taken
    sensor_states,        \* hass.states.get(entity_id) of each monitored sensor
    data_row,             \* the features of the row async_collect_data_point built last
    sensor_data           \* the features the prediction loop built last

ctlVars == <<hvac_mode, preset_mode, target_temperature, is_override_active,
             override_end_time, prediction_task, timers>>
mlVars == <<model, is_trained, modelFile, trainPc, trainResult, trainRows, trainBefore>>
csvVars == <<csvExists, csvRows, csvHeader, csvRowFields, sensor_entity_ids>>
encVars == <<sensor_states, data_row, sensor_data>>
vars == <<now, lifecycle, hvac_mode, preset_mode, target_temperature,
          is_override_active, override_end_time, prediction_task, timers,
          lastState, actTarget, csvExists, csvRows, csvHeader, csvRowFields,
          sensor_entity_ids, model, is_trained,
          modelFile, trainPc, trainResult, trainRows, trainBefore, inflight, budget,
          restarts, t0, autoSinceOverride, lastSent, lastOp, sensor_states,
          data_row, sensor_data>>

\* ----------------------------------------------------------------- helpers
NoModel == [gen |-> 0, fitted |-> FALSE]
NoState == [state |-> "None", temperature |-> NoTemp, preset_mode |-> "None"]
NoOp == [op |-> "init", arg |-> NoTemp, out |-> "none"]
Op(o, a, r) == [op |-> o, arg |-> a, out |-> r]

RemoveAt(s, i) == [j \in 1..(Len(s) - 1) |-> IF j < i THEN s[j] ELSE s[j + 1]]
ReplaceAt(s, i, x) == [s EXCEPT ![i] = x]
IsPrefix(s, t) == Len(s) <= Len(t) /\ \A i \in 1..Len(s) : s[i] = t[i]

\* A coroutine suspended at an await: which operation, at which await, with
\* which temperature in its local variable.
Coro(o, p, v) == [op |-> o, pc |-> p, temp |-> v]

\* ClimateEntity state as async_write_ha_state publishes it: the state is
\* hvac_mode, the attributes hold target_temperature and the preset_mode
\* property (None unless the mode is auto).
PresetProperty(m, p) == IF m = HVAC_MODE_AUTO THEN p ELSE "None"
HaState(m, t, p) == [state |-> m, temperature |-> t, preset_mode |-> PresetProperty(m, p)]

\* round(predicted_temp, 1) on hundredths of a degree.
Round1(x) == ((x + 5) \div 10) * 10

\* datetime.now() + self._override_duration
OverrideEndMutant(t) == t
OverrideEnd(t) == t + OverrideDuration

\* datetime.now() < self._override_end_time
OverrideRunningMutant(t, end) == t <= end
OverrideRunning(t, end) == t < end


\* -------------------------------------------------------------- ml_core.py
\* Attributes of a datetime.datetime object (the standard library's):
\* _predict_temperature_sync reads now.hour, now.minute, now.second and
\* now.dayofweek; only pandas' Timestamp has dayofweek.
DatetimeAttrs == {"year", "month", "day", "hour", "minute", "second",
                  "microsecond", "tzinfo", "weekday", "isoweekday"}

\* The regressor's raw output for a fitted pipeline (a float with more than
\* one decimal).
Estimate(m) == 1946 + m.gen

\* _predict_temperature_sync: the feature engineering reads the attribute
\* `weekdayAttr` of datetime.now(); an AttributeError there, or a pipeline
\* that is not fitted at self.model.predict, is caught by the except clause,
\* which returns None.
PredictWith(m, weekdayAttr) ==
    IF weekdayAttr \notin DatetimeAttrs THEN NoTemp
    ELSE IF ~m.fitted THEN NoTemp
    ELSE Estimate(m)

\* seconds_in_day = 24 * 60 * 60
SecondsInDay == 86400
DaysInWeek == 7

\* The derived columns of a timestamp t (minutes since a Monday 00:00).
\* time_sin and time_cos are sin and cos of 2 * pi * seconds_from_midnight /
\* seconds_in_day on both paths, and are held as their argument
\* seconds_from_midnight.
SecondsFromMidnight(t) == (t * 60) % SecondsInDay
\* Monday = 0: pandas' .dt.dayofweek and datetime.weekday(); Monday = 1:
\* datetime.isoweekday().
DayIndex(t, weekdayAttr) ==
    LET monday0 == ((t * 60) \div SecondsInDay) % DaysInWeek
    IN  IF weekdayAttr = "isoweekday" THEN monday0 + 1 ELSE monday0

\* _train_model_sync: df['timestamp'].dt.hour / .minute / .second / .dayofweek
\* on a pandas datetime column.
TrainDerivedFeatures(t) ==
    [ok |-> TRUE,
     seconds_from_midnight |-> SecondsFromMidnight(t),
     day_of_week |-> DayIndex(t, "dayofweek")]

\* _predict_temperature_sync: now.hour, now.minute, now.second and the
\* attribute weekdayAttr of datetime.now(); an attribute the object does not
\* have raises AttributeError and the encoding fails.
PredictDerivedFeaturesWith(t, weekdayAttr) ==
    IF weekdayAttr \in DatetimeAttrs
    THEN [ok |-> TRUE,
          seconds_from_midnight |-> SecondsFromMidnight(t),
          day_of_week |-> DayIndex(t, weekdayAttr)]
    ELSE [ok |-> FALSE,
          seconds_from_midnight |-> SecondsFromMidnight(t),
          day_of_week |-> NoTemp]
PredictDerivedFeatures(t) == PredictDerivedFeaturesWith(t, "dayofweek")

PredictTemperatureSyncWeekday(m) == PredictWith(m, "weekday")
PredictTemperatureSync(m) == PredictWith(m, "dayofweek")

\* async_predict_temperature's guard: not self.is_trained or self.model is None
NotTrainedGuard == ~is_trained \/ model.gen = 0

\* --------------------------------------------------------------- climate.py
\* if self._preset_mode == PRESET_LEARNING_CONTROLLING
ShouldRecordManualAlways(p) == TRUE
ShouldRecordManual(p) == p = PRESET_LEARNING_CONTROLLING

\* _async_update_prediction_task, as the timers it leaves and the handle it
\* stores: the old handle is cancelled, and in auto a new interval is started.
TimersAfterUpdateNoCancel(m) ==
    IF m = HVAC_MODE_AUTO THEN timers \cup {now + SCAN_INTERVAL} ELSE timers
TimersAfterUpdate(m) ==
    LET kept == IF prediction_task /= NoTime THEN timers \ {prediction_task} ELSE timers
    IN  IF m = HVAC_MODE_AUTO THEN kept \cup {now + SCAN_INTERVAL} ELSE kept
TaskAfterUpdate(m) == IF m = HVAC_MODE_AUTO THEN now + SCAN_INTERVAL ELSE NoTime

\* async_set_temperature up to its first await.
SetTemperature(v) ==
    /\ UNCHANGED encVars
    /\ lifecycle = "up"
    /\ budget > 0
    /\ Len(inflight) < MaxInflight
    /\ IF v = NoTemp
       THEN /\ lastOp' = Op("set_temperature", v, "ignored")
            /\ UNCHANGED <<now, lifecycle, ctlVars, lastState, actTarget, csvVars,
                           mlVars, inflight, budget, restarts,
                           t0, autoSinceOverride, lastSent>>
       ELSE /\ target_temperature' = v
            /\ is_override_active' = TRUE
            /\ override_end_time' = OverrideEnd(now)
            /\ inflight' = Append(inflight,
                    IF ShouldRecordManual(preset_mode)
                    THEN Coro("set_temperature", "write", v)
                    ELSE Coro("set_temperature", "service", v))
            /\ budget' = budget - 1
            /\ t0' = now
            /\ autoSinceOverride' = (hvac_mode = HVAC_MODE_AUTO)
            /\ lastSent' = IF ShouldRecordManual(preset_mode) THEN lastSent ELSE v
            /\ lastOp' = Op("set_temperature", v, "override")
            /\ UNCHANGED <<now, lifecycle, hvac_mode, preset_mode, prediction_task,
                           timers, lastState, actTarget, csvVars, mlVars, restarts>>

\* async_set_hvac_mode
SetHvacMode(m) ==
    /\ UNCHANGED encVars
    /\ lifecycle = "up"
    /\ hvac_mode' = m
    /\ timers' = TimersAfterUpdate(m)
    /\ prediction_task' = TaskAfterUpdate(m)
    /\ lastState' = HaState(m, target_temperature, preset_mode)
    /\ lastOp' = Op("set_hvac_mode", NoTemp, m)
    /\ autoSinceOverride' = (autoSinceOverride /\ m = HVAC_MODE_AUTO)
    /\ UNCHANGED <<now, lifecycle, preset_mode, target_temperature, is_override_active,
                   override_end_time, actTarget, csvVars, mlVars, inflight, budget,
                   restarts, t0, lastSent>>

\* async_set_preset_mode
SetPresetModeUnchecked(p) ==
    /\ UNCHANGED encVars
    /\ lifecycle = "up"
    /\ preset_mode' = p
    /\ lastState' = HaState(hvac_mode, target_temperature, p)
    /\ lastOp' = Op("set_preset_mode", NoTemp, p)
    /\ UNCHANGED <<now, lifecycle, hvac_mode, target_temperature, is_override_active,
                   override_end_time, prediction_task, timers, actTarget, csvVars,
                   mlVars, inflight, budget, restarts, t0, autoSinceOverride, lastSent>>

SetPresetMode(p) ==
    /\ UNCHANGED encVars
    /\ lifecycle = "up"
    /\ IF p \notin PRESETS
       THEN /\ lastOp' = Op("set_preset_mode", NoTemp, p)
            /\ UNCHANGED <<now, lifecycle, ctlVars, lastState, actTarget, csvVars,
                           mlVars, inflight, budget, restarts,
                           t0, autoSinceOverride, lastSent>>
       ELSE /\ preset_mode' = p
            /\ lastState' = HaState(hvac_mode, target_temperature, p)
            /\ lastOp' = Op("set_preset_mode", NoTemp, p)
            /\ UNCHANGED <<now, lifecycle, hvac_mode, target_temperature,
                           is_override_active, override_end_time, prediction_task,
                           timers, actTarget, csvVars, mlVars, inflight, budget,
                           restarts, t0, autoSinceOverride, lastSent>>

\* if self._hvac_mode != HVAC_MODE_AUTO or not self._ml_core.is_trained: return
TickIdleModeOnly == hvac_mode /= HVAC_MODE_AUTO
TickIdle == hvac_mode /= HVAC_MODE_AUTO \/ ~is_trained

\* The interval timer fires _async_prediction_loop, which runs up to its await
\* of async_predict_temperature (or to its end).
TickFire ==
    /\ UNCHANGED encVars
    /\ lifecycle = "up"
    /\ now \in timers
    /\ Len(inflight) < MaxInflight
    /\ timers' = (timers \ {now}) \cup {now + SCAN_INTERVAL}
    /\ prediction_task' = IF prediction_task = now THEN now + SCAN_INTERVAL
                          ELSE prediction_task
    /\ IF TickIdle
       THEN /\ lastOp' = Op("tick", now, "noop")
            /\ UNCHANGED <<is_override_active, inflight, lastState>>
       ELSE IF is_override_active /\ OverrideRunning(now, override_end_time)
       THEN /\ lastOp' = Op("tick", now, "skip")
            /\ UNCHANGED <<is_override_active, inflight, lastState>>
       ELSE /\ is_override_active' = FALSE
            /\ IF NotTrainedGuard
               THEN /\ lastState' = HaState(hvac_mode, target_temperature, preset_mode)
                    /\ lastOp' = Op("tick", now, "not_trained")
                    /\ UNCHANGED inflight
               ELSE /\ inflight' = Append(inflight, Coro("tick", "predict", NoTemp))
                    /\ lastOp' = Op("tick", now, "predict")
                    /\ UNCHANGED lastState
    /\ UNCHANGED <<now, lifecycle, hvac_mode, preset_mode, target_temperature,
                   override_end_time, actTarget, csvVars, mlVars, budget, restarts,
                   t0, autoSinceOverride, lastSent>>

\* if predicted_temp is not None
PredictionAppliedAlways(predicted_temp) == TRUE
PredictionApplied(predicted_temp) == predicted_temp /= NoTemp

\* The executor finishes _predict_temperature_sync and the prediction loop
\* resumes after its await, up to the service call (or to its end).
PredictDone(i) ==
    /\ UNCHANGED encVars
    /\ i \in 1..Len(inflight)
    /\ inflight[i].op = "tick" /\ inflight[i].pc = "predict"
    /\ LET predicted_temp == PredictTemperatureSync(model)
       IN  IF PredictionApplied(predicted_temp)
           THEN /\ target_temperature' = Round1(predicted_temp)
                /\ inflight' = ReplaceAt(inflight, i,
                                   Coro("tick", "service", Round1(predicted_temp)))
                /\ lastSent' = Round1(predicted_temp)
                /\ lastOp' = Op("predict_done", predicted_temp, "applied")
                /\ UNCHANGED lastState
           ELSE /\ inflight' = RemoveAt(inflight, i)
                /\ lastState' = HaState(hvac_mode, target_temperature, preset_mode)
                /\ lastOp' = Op("predict_done", NoTemp, "failed")
                /\ UNCHANGED <<target_temperature, lastSent>>
    /\ UNCHANGED <<now, lifecycle, hvac_mode, preset_mode, is_override_active,
                   override_end_time, prediction_task, timers, actTarget, csvVars,
                   mlVars, budget, restarts, t0, autoSinceOverride>>

\* -------------------------------------------------------- data_collector.py
\* sanitize_entity_id_for_feature: entity_id.replace(".", "_")
SanitizeEntityIdForFeature(entity_id) ==
    CASE entity_id = "sensor.temperature" -> "sensor_temperature"
      [] entity_id = "binary_sensor.window" -> "binary_sensor_window"
      [] OTHER -> entity_id

\* self._fieldnames = ["timestamp"] + self._feature_names + ["target_temperature"];
\* csv.DictWriter writes a header and every row in this order.
Fieldnames(ids) ==
    <<"timestamp">> \o [i \in DOMAIN ids |-> SanitizeEntityIdForFeature(ids[i])]
                   \o <<"target_temperature">>

\* The row async_collect_data_point builds for a coroutine: its label, and
\* (history) the path that asked for it.
Row(c) == [label |-> c.temp,
           via |-> IF c.op = "set_temperature" THEN "manual" ELSE "observed"]

\* _async_handle_initial_learning_state_change: both states exist here, so the
\* test left is old_temp != new_temp and new_temp is not None.
ObservedChange(old, new) == old /= new /\ new /= NoTemp

\* _write_to_csv's except clauses (IOError, Exception) log the error: the
\* executor job returns normally whether the write succeeded (ok) or not.
WriteReturnsOnSuccessOnly(ok) == ok
WriteReturns(ok) == TRUE

\* _write_to_csv on an executor thread (open in mode "a" creates the file);
\* an IOError is logged and swallowed.  The awaiting coroutine then resumes:
\* async_set_temperature goes on to the service call, the observer's task ends
\* (an exception out of the job would end either).
WriteDone(i, ok) ==
    /\ UNCHANGED encVars
    /\ i \in 1..Len(inflight)
    /\ inflight[i].pc = "write"
    /\ IF ok
       THEN /\ csvRows' = Append(csvRows, Row(inflight[i]))
            /\ csvRowFields' = Append(csvRowFields, Fieldnames(sensor_entity_ids))
            /\ csvExists' = TRUE
            /\ UNCHANGED <<csvHeader, sensor_entity_ids>>
       ELSE UNCHANGED csvVars
    /\ inflight' = IF inflight[i].op = "set_temperature" /\ WriteReturns(ok)
                   THEN ReplaceAt(inflight, i,
                            Coro("set_temperature", "service", inflight[i].temp))
                   ELSE RemoveAt(inflight, i)
    /\ lastSent' = IF inflight[i].op = "set_temperature" /\ WriteReturns(ok)
                   THEN inflight[i].temp
                   ELSE lastSent
    /\ lastOp' = Op("write_done", inflight[i].temp, IF ok THEN "written" ELSE "dropped")
    /\ UNCHANGED <<now, lifecycle, ctlVars, lastState, actTarget, mlVars, budget,
                   restarts, t0, autoSinceOverride>>

\* ------------------------------------------------------- feature encoding
\* state.state if state else "unknown"
EncodeReading(state) == IF state /= NoStateObject THEN state ELSE "unknown"

\* No feature built yet.
NoFeatures == [e \in SensorEntities |-> "unset"]

\* A monitored sensor changes its state (or its state object goes away).
SensorStateChange(e, v) ==
    /\ sensor_states' = [sensor_states EXCEPT ![e] = v]
    /\ lastOp' = Op("sensor", NoTemp, v)
    /\ UNCHANGED <<now, lifecycle, ctlVars, lastState, actTarget, csvVars, mlVars,
                   inflight, budget, restarts,
                   t0, autoSinceOverride, lastSent, data_row, sensor_data>>

\* async_collect_data_point: the loop that fills data_row[feature_name].
CollectDataPointRow ==
    /\ lifecycle = "up"
    /\ data_row' = [e \in SensorEntities |-> EncodeReading(sensor_states[e])]
    /\ lastOp' = Op("collect_row", NoTemp, "none")
    /\ UNCHANGED <<now, lifecycle, ctlVars, lastState, actTarget, csvVars, mlVars,
                   inflight, budget, restarts,
                   t0, autoSinceOverride, lastSent, sensor_states, sensor_data>>

\* _async_prediction_loop: the loop that fills sensor_data[feature_name].
PredictionSensorData ==
    /\ lifecycle = "up"
    /\ sensor_data' = [e \in SensorEntities |-> EncodeReading(sensor_states[e])]
    /\ lastOp' = Op("sensor_data", NoTemp, "none")
    /\ UNCHANGED <<now, lifecycle, ctlVars, lastState, actTarget, csvVars, mlVars,
                   inflight, budget, restarts,
                   t0, autoSinceOverride, lastSent, sensor_states, data_row>>

\* ------------------------------------------------- the target climate entity
\* The actuator handles a climate.set_temperature call issued by
\* _async_set_target_climate_temp (blocking=True): it takes the value, the
\* state machine fires state_changed when the attribute changed, the data
\* collector's listener reacts, and the caller resumes after its await
\* (async_write_ha_state).  A failing call raises out of the coroutine.
ServiceDone(i, ok) ==
    /\ UNCHANGED encVars
    /\ i \in 1..Len(inflight)
    /\ inflight[i].pc = "service"
    /\ IF ok
       THEN /\ actTarget' = inflight[i].temp
            /\ inflight' = IF ObservedChange(actTarget, inflight[i].temp)
                           THEN Append(RemoveAt(inflight, i),
                                       Coro("observe", "write", inflight[i].temp))
                           ELSE RemoveAt(inflight, i)
            /\ lastState' = HaState(hvac_mode, target_temperature, preset_mode)
            /\ lastOp' = Op("service_done", inflight[i].temp, inflight[i].op)
       ELSE /\ inflight' = RemoveAt(inflight, i)
            /\ lastOp' = Op("service_raised", inflight[i].temp, inflight[i].op)
            /\ UNCHANGED <<actTarget, lastState>>
    /\ UNCHANGED <<now, lifecycle, ctlVars, csvVars, mlVars, budget, restarts,
                   t0, autoSinceOverride, lastSent>>

\* The actuator's target is changed from outside the controller.
ExternalTargetChange(v) ==
    /\ UNCHANGED encVars
    /\ lifecycle = "up"
    /\ budget > 0
    /\ Len(inflight) < MaxInflight
    /\ actTarget' = v
    /\ inflight' = IF ObservedChange(actTarget, v)
                   THEN Append(inflight, Coro("observe", "write", v))
                   ELSE inflight
    /\ budget' = budget - 1
    /\ lastOp' = Op("external_change", v, "none")
    /\ UNCHANGED <<now, lifecycle, ctlVars, lastState, csvVars, mlVars, restarts,
                   t0, autoSinceOverride, lastSent>>

\* Time passes; an interval timer that is due fires before the clock moves on.
Advance(limit) ==
    /\ UNCHANGED encVars
    /\ now < limit
    /\ now \notin timers
    /\ now' = now + 1
    /\ lastOp' = Op("advance", NoTemp, "none")
    /\ UNCHANGED <<lifecycle, ctlVars, lastState, actTarget, csvVars, mlVars,
                   inflight, budget, restarts, t0, autoSinceOverride, lastSent>>

\* ---------------------------------------------------- ml_core.py: training
\* if len(df) < 20
EnoughDataOffByOne(n) == n > MinRecords
EnoughData(n) == ~(n < MinRecords)

\* The Pipeline object a training run creates is a new object.
NewGen == (IF model.gen > modelFile THEN model.gen ELSE modelFile) + 1

\* _train_model_sync up to the feature engineering: the data file must exist,
\* be readable (readOk) and hold at least 20 rows.
TrainRead(readOk) ==
    /\ UNCHANGED <<encVars, trainBefore>>
    /\ trainPc = "start"
    /\ IF ~csvExists
       THEN trainPc' = "done" /\ trainResult' = "no_file" /\ UNCHANGED trainRows
       ELSE IF ~readOk
       THEN trainPc' = "done" /\ trainResult' = "unreadable" /\ UNCHANGED trainRows
       ELSE IF ~EnoughData(Len(csvRows))
       THEN /\ trainPc' = "done"
            /\ trainResult' = "insufficient"
            /\ trainRows' = Len(csvRows)
       ELSE trainPc' = "build" /\ trainRows' = Len(csvRows) /\ UNCHANGED trainResult
    /\ lastOp' = Op("train_read", Len(csvRows), IF readOk THEN "read" ELSE "unreadable")
    /\ UNCHANGED <<now, lifecycle, ctlVars, lastState, actTarget, csvVars, model,
                   is_trained, modelFile, inflight, budget, restarts,
                   t0, autoSinceOverride, lastSent>>

\* The feature engineering (pd.to_datetime and the derived columns are outside
\* any try: engOk is whether they complete), then self.model = Pipeline(...):
\* the new, unfitted pipeline is stored in the live attribute.
TrainPublish(engOk) ==
    /\ UNCHANGED <<encVars, trainBefore>>
    /\ trainPc = "build"
    /\ IF engOk
       THEN /\ model' = [gen |-> NewGen, fitted |-> FALSE]
            /\ trainPc' = "fit"
            /\ UNCHANGED trainResult
       ELSE /\ trainPc' = "done"
            /\ trainResult' = "raised"
            /\ UNCHANGED model
    /\ lastOp' = Op("train_publish", NoTemp, IF engOk THEN "built" ELSE "raised")
    /\ UNCHANGED <<now, lifecycle, ctlVars, lastState, actTarget, csvVars,
                   is_trained, modelFile, trainRows, inflight, budget, restarts,
                   t0, autoSinceOverride, lastSent>>

\* self.model.fit(X, y): fits the stored pipeline in place; an exception of
\* the fit (fitOk false) leaves the job, not caught.
TrainFit(fitOk) ==
    /\ UNCHANGED <<encVars, trainBefore>>
    /\ trainPc = "fit"
    /\ IF fitOk
       THEN /\ model' = [model EXCEPT !.fitted = TRUE]
            /\ trainPc' = "dump"
            /\ UNCHANGED trainResult
       ELSE /\ trainPc' = "done"
            /\ trainResult' = "raised"
            /\ UNCHANGED model
    /\ lastOp' = Op("train_fit", NoTemp, IF fitOk THEN "fitted" ELSE "raised")
    /\ UNCHANGED <<now, lifecycle, ctlVars, lastState, actTarget, csvVars,
                   is_trained, modelFile, trainRows, inflight, budget, restarts,
                   t0, autoSinceOverride, lastSent>>

\* joblib.dump: on success is_trained is set and True returned, on failure
\* the error is logged and False returned.
TrainDump(ok) ==
    /\ UNCHANGED <<encVars, trainBefore>>
    /\ trainPc = "dump"
    /\ IF ok
       THEN modelFile' = model.gen /\ is_trained' = TRUE /\ trainResult' = "true"
       ELSE trainResult' = "save_failed" /\ UNCHANGED <<modelFile, is_trained>>
    /\ trainPc' = "done"
    /\ lastOp' = Op("train_dump", NoTemp, IF ok THEN "saved" ELSE "save_failed")
    /\ UNCHANGED <<now, lifecycle, ctlVars, lastState, actTarget, csvVars, model,
                   trainRows, inflight, budget, restarts, t0, autoSinceOverride, lastSent>>

\* ------------------------------------------------ __init__.py: entry set-up
\* _init_csv_file: the file is created, holding only the header, when it does
\* not exist; an existing file is left alone.
CsvRowsAfterInitTruncating == <<>>
CsvRowsAfterInit == IF ~csvExists THEN <<>> ELSE csvRows
CsvRowFieldsAfterInit == IF ~csvExists THEN <<>> ELSE csvRowFields
\* writer.writeheader() with this run's fieldnames, when the file is created.
CsvHeaderAfterInit(ids) == IF ~csvExists THEN Fieldnames(ids) ELSE csvHeader

\* _load_model: the persisted pipeline when the file exists and joblib.load
\* succeeds (loadOk), else None.
LoadedModel(loadOk) ==
    IF modelFile /= 0 /\ loadOk THEN [gen |-> modelFile, fitted |-> TRUE] ELSE NoModel

\* async_added_to_hass: the fields after the restore of the last state.
RestoredTarget == IF lastState = NoState THEN DefaultTarget ELSE lastState.temperature
RestoredMode == IF lastState = NoState THEN HVAC_MODE_OFF ELSE lastState.state
RestoredPreset ==
    IF lastState = NoState THEN PRESET_LEARNING_CONTROLLING ELSE lastState.preset_mode

\* async_setup_entry: the sensor list is built (in the order ids), the data
\* collector is set up, the MLCore is built (_load_model), the first training
\* is started in the background, and the climate entity is created and added
\* (async_added_to_hass).
Setup(loadOk, ids) ==
    /\ UNCHANGED encVars
    /\ lifecycle = "down"
    /\ lifecycle' = "up"
    /\ sensor_entity_ids' = ids
    /\ csvExists' = TRUE
    /\ csvRows' = CsvRowsAfterInit
    /\ csvRowFields' = CsvRowFieldsAfterInit
    /\ csvHeader' = CsvHeaderAfterInit(ids)
    /\ model' = LoadedModel(loadOk)
    /\ is_trained' = (LoadedModel(loadOk) /= NoModel)
    /\ trainPc' = "start"
    /\ trainResult' = "none"
    /\ trainRows' = NoTemp
    /\ trainBefore' = [model |-> LoadedModel(loadOk),
                       is_trained |-> (LoadedModel(loadOk) /= NoModel)]
    /\ target_temperature' = RestoredTarget
    /\ hvac_mode' = RestoredMode
    /\ preset_mode' = RestoredPreset
    /\ is_override_active' = FALSE
    /\ override_end_time' = NoTime
    /\ prediction_task' = IF RestoredMode = HVAC_MODE_AUTO THEN now + SCAN_INTERVAL
                          ELSE NoTime
    /\ timers' = IF RestoredMode = HVAC_MODE_AUTO THEN timers \cup {now + SCAN_INTERVAL}
                 ELSE timers
    /\ lastState' = HaState(RestoredMode, RestoredTarget, RestoredPreset)
    /\ lastOp' = Op("setup", NoTemp, "none")
    /\ autoSinceOverride' = FALSE
    /\ lastSent' = NoTemp
    /\ UNCHANGED <<now, actTarget, modelFile, inflight, budget, restarts, t0>>

\* async_unload_entry: data_collector.stop() and async_will_remove_from_hass
\* (the timer and the listeners are cancelled).  Taken when no coroutine and
\* no training job of this entry is still running.
Unload ==
    /\ UNCHANGED encVars
    /\ lifecycle = "up"
    /\ inflight = <<>>
    /\ trainPc = "done"
    /\ restarts < MaxRestarts
    /\ lifecycle' = "down"
    /\ timers' = IF prediction_task /= NoTime THEN timers \ {prediction_task} ELSE timers
    /\ restarts' = restarts + 1
    /\ lastOp' = Op("unload", NoTemp, "none")
    /\ UNCHANGED <<now, hvac_mode, preset_mode, target_temperature, is_override_active,
                   override_end_time, prediction_task, lastState, actTarget, csvVars,
                   mlVars, inflight, budget, t0, autoSinceOverride, lastSent>>

\* ------------------------------------------------------------ specifications
HistoricRow == [label |-> DefaultTarget, via |-> "historic"]
HistoricRows(n) == [i \in 1..n |-> HistoricRow]

\* What the platform can hold before the entry is set up: a training log of
\* n rows (none: no file), a persisted model or none, a last state or none.
InitDown(counts, files, states, ops) ==
    /\ now = 0
    /\ lifecycle = "down"
    /\ hvac_mode = HVAC_MODE_OFF
    /\ preset_mode = PRESET_LEARNING_CONTROLLING
    /\ target_temperature = DefaultTarget
    /\ is_override_active = FALSE
    /\ override_end_time = NoTime
    /\ prediction_task = NoTime
    /\ timers = {}
    /\ lastState \in states
    /\ actTarget = DefaultTarget
    /\ \E n \in counts :
          /\ csvRows = HistoricRows(n)
          /\ csvExists = (n > 0)
          /\ csvHeader = (IF n > 0 THEN Fieldnames(FirstOrder) ELSE <<>>)
          /\ csvRowFields = [i \in 1..n |-> Fieldnames(FirstOrder)]
    /\ sensor_entity_ids = <<>>
    /\ model = NoModel
    /\ is_trained = FALSE
    /\ modelFile \in files
    /\ trainPc = "done"
    /\ trainResult = "none"
    /\ trainRows = NoTemp
    /\ trainBefore = [model |-> NoModel, is_trained |-> FALSE]
    /\ inflight = <<>>
    /\ budget = ops
    /\ restarts = 0
    /\ t0 = NoTime
    /\ autoSinceOverride = FALSE
    /\ lastSent = NoTemp
    /\ lastOp = NoOp

\* The state t idle minutes after a set-up at time 0 that found an empty log,
\* the persisted model `file` (0: none) and the last state `last`, and whose
\* first training has returned (too few rows).
InitUp(t, file, last, ops) ==
    /\ now = t
    /\ lifecycle = "up"
    /\ hvac_mode = (IF last = NoState THEN HVAC_MODE_OFF ELSE last.state)
    /\ preset_mode = (IF last = NoState THEN PRESET_LEARNING_CONTROLLING
                      ELSE last.preset_mode)
    /\ target_temperature = (IF last = NoState THEN DefaultTarget ELSE last.temperature)
    /\ is_override_active = FALSE
    /\ override_end_time = NoTime
    /\ prediction_task = (IF last /= NoState /\ last.state = HVAC_MODE_AUTO
                          THEN SCAN_INTERVAL ELSE NoTime)
    /\ timers = (IF last /= NoState /\ last.state = HVAC_MODE_AUTO
                 THEN {SCAN_INTERVAL} ELSE {})
    /\ lastState = (IF last = NoState
                    THEN HaState(HVAC_MODE_OFF, DefaultTarget, PRESET_LEARNING_CONTROLLING)
                    ELSE last)
    /\ actTarget = DefaultTarget
    /\ csvRows = <<>>
    /\ csvExists = TRUE
    /\ csvHeader = Fieldnames(FirstOrder)
    /\ csvRowFields = <<>>
    /\ sensor_entity_ids = FirstOrder
    /\ model = (IF file /= 0 THEN [gen |-> file, fitted |-> TRUE] ELSE NoModel)
    /\ is_trained = (file /= 0)
    /\ modelFile = file
    /\ trainPc = "done"
    /\ trainResult = "insufficient"
    /\ trainRows = 0
    /\ trainBefore = [model |-> (IF file /= 0 THEN [gen |-> file, fitted |-> TRUE]
                                 ELSE NoModel),
                      is_trained |-> (file /= 0)]
    /\ inflight = <<>>
    /\ budget = ops
    /\ restarts = 0
    /\ t0 = NoTime
    /\ autoSinceOverride = FALSE
    /\ lastSent = NoTemp
    /\ lastOp = NoOp

\* The sensors as the specifications that do not follow them hold them.
SensorsIdle ==
    /\ sensor_states = [e \in SensorEntities |-> STATE_UNKNOWN]
    /\ data_row = NoFeatures
    /\ sensor_data = NoFeatures

\* The controller: the user's operations, the tick, the coroutines' awaits.
Init ==
    /\ SensorsIdle
    /\ \E file \in {0, 1},
       last \in {NoState, HaState(HVAC_MODE_AUTO, DefaultTarget, PRESET_CONTROLLING),
                 HaState(HVAC_MODE_AUTO, DefaultTarget, PRESET_LEARNING_CONTROLLING)} :
        InitUp(SCAN_INTERVAL, file, last, MaxOps)

Next ==
    \/ Advance(ShortHorizon)
    \/ \E v \in TempInputs \cup {NoTemp} : SetTemperature(v)
    \/ \E m \in HvacModeInputs : SetHvacMode(m)
    \/ \E p \in PresetInputs : SetPresetMode(p)
    \/ TickFire
    \/ \E i \in 1..MaxInflight : PredictDone(i)
    \/ \E i \in 1..MaxInflight, ok \in BOOLEAN : WriteDone(i, ok)
    \/ \E i \in 1..MaxInflight, ok \in BOOLEAN : ServiceDone(i, ok)
    \/ \E v \in TempInputs : ExternalTargetChange(v)

Spec == Init /\ [][Next]_vars

\* The model manager: set-up, the background training job in its steps, the
\* log growing through the observation path, the tick's prediction, restart.
\* Row counts the log can hold at set-up: none, and those around the
\* 20-row threshold of the training.
HistoricCounts == {0} \cup {n \in 0..MaxHistoric : n >= MinRecords - 2}

InitML ==
    /\ SensorsIdle
    /\ InitDown(HistoricCounts, {0, 1},
                {NoState, HaState(HVAC_MODE_AUTO, DefaultTarget, PRESET_CONTROLLING)},
                MaxOpsML)

NextML ==
    \/ \E loadOk \in BOOLEAN, ids \in SensorOrders : Setup(loadOk, ids)
    \/ Unload
    \/ Advance(ShortHorizon)
    \/ TickFire
    \/ \E i \in 1..MaxInflight : PredictDone(i)
    \/ \E i \in 1..MaxInflight, ok \in BOOLEAN : WriteDone(i, ok)
    \/ \E i \in 1..MaxInflight, ok \in BOOLEAN : ServiceDone(i, ok)
    \/ \E v \in TempInputs : SetTemperature(v)
    \/ \E v \in TempInputs : ExternalTargetChange(v)
    \/ \E ok \in BOOLEAN : TrainRead(ok)
    \/ \E ok \in BOOLEAN : TrainPublish(ok)
    \/ \E ok \in BOOLEAN : TrainFit(ok)
    \/ \E ok \in BOOLEAN : TrainDump(ok)

SpecML == InitML /\ [][NextML]_vars

\* The override window: one hour of wall clock after a set-up at time 0 in
\* auto mode, with a loaded model or with none.
InitTiming ==
    /\ SensorsIdle
    /\ \E file \in {0, 1}, p \in PRESETS :
          InitUp(0, file, HaState(HVAC_MODE_AUTO, DefaultTarget, p), MaxOpsTiming)

NextTiming ==
    \/ Advance(MaxTime)
    \/ \E v \in TempInputs : SetTemperature(v)
    \/ TickFire
    \/ \E i \in 1..MaxInflight : PredictDone(i)
    \/ \E i \in 1..MaxInflight, ok \in BOOLEAN : WriteDone(i, ok)
    \/ \E i \in 1..MaxInflight, ok \in BOOLEAN : ServiceDone(i, ok)

SpecTiming == InitTiming /\ [][NextTiming]_vars

\* The override's expiry under changes of the mode and the preset: one hour
\* of wall clock after a set-up at time 0 in auto mode with a loaded model;
\* the user sets one temperature, within the first minutes, and changes the
\* mode and the preset at any time.
ExpiryTempInputs == {1800}

InitExpiry ==
    /\ SensorsIdle
    /\ InitUp(0, 1, HaState(HVAC_MODE_AUTO, DefaultTarget, PRESET_CONTROLLING),
              MaxOpsExpiry)

NextExpiry ==
    \/ Advance(MaxTime)
    \/ now <= ShortHorizon /\ \E v \in ExpiryTempInputs : SetTemperature(v)
    \/ \E m \in HvacModeInputs : SetHvacMode(m)
    \/ \E p \in PresetInputs : SetPresetMode(p)
    \/ TickFire
    \/ \E i \in 1..MaxInflight : PredictDone(i)
    \/ \E i \in 1..MaxInflight, ok \in BOOLEAN : WriteDone(i, ok)
    \/ \E i \in 1..MaxInflight, ok \in BOOLEAN : ServiceDone(i, ok)

SpecExpiry == InitExpiry /\ [][NextExpiry]_vars

\* The feature encoding: the sensors take every combination of states, and a
\* row and a prediction input are built from them at any time.
InitEncode ==
    /\ sensor_states \in [SensorEntities -> SensorStateInputs]
    /\ data_row = NoFeatures
    /\ sensor_data = NoFeatures
    /\ InitUp(0, 0, NoState, 0)

NextEncode ==
    \/ \E e \in SensorEntities, v \in SensorStateInputs : SensorStateChange(e, v)
    \/ CollectDataPointRow
    \/ PredictionSensorData

SpecEncode == InitEncode /\ [][NextEncode]_vars

\* -------------------------------------------------------------------- claims
InFlight(o, p) == \E i \in 1..Len(inflight) : inflight[i].op = o /\ inflight[i].pc = p

\* C1: with the mode auto and the model trained, after set_temperature at t0
\* with an override duration of 60 minutes, every tick at a time t with
\* t0 <= t < t0 + 60 leaves the override active and requests no prediction,
\* and the first tick at a time t >= t0 + 60 clears the override and requests
\* a prediction.
C1_OverrideWindow ==
    [][(TickFire /\ hvac_mode = HVAC_MODE_AUTO /\ is_trained /\ is_override_active) =>
          /\ t0 <= now
          /\ IF now < t0 + 60
             THEN is_override_active' /\ inflight' = inflight
             ELSE /\ ~is_override_active'
                  /\ inflight' = Append(inflight, Coro("tick", "predict", NoTemp))]_vars

\* A tick at exactly t0 + 60 has cleared the override and asked for a prediction.
C1_Witness ==
    /\ t0 /= NoTime
    /\ now = t0 + 60
    /\ lastOp = Op("tick", now, "predict")
    /\ ~is_override_active
    /\ InFlight("tick", "predict")

\* C2: set_temperature(v) with v present, in any mode, sets the override
\* active with until = now + override duration and the target to v; it hands a
\* row labelled v to the log through the manual path if and only if the preset
\* is Learning & Controlling (the row is the log's new last row when the write
\* succeeds); and it forwards v to the actuator whatever the preset and mode:
\* at once when it does not record, after the write returned when it does.
C2_SetTemperature ==
    [][/\ \A v \in TempInputs : SetTemperature(v) =>
            /\ is_override_active'
            /\ override_end_time' = now + 60
            /\ target_temperature' = v
            /\ inflight' = Append(inflight,
                    Coro("set_temperature",
                         IF preset_mode = PRESET_LEARNING_CONTROLLING
                         THEN "write" ELSE "service", v))
       /\ \A i \in 1..Len(inflight), ok \in BOOLEAN :
            (inflight[i].op = "set_temperature" /\ WriteDone(i, ok)) =>
               /\ inflight' = ReplaceAt(inflight, i,
                      Coro("set_temperature", "service", inflight[i].temp))
               /\ ok => csvRows' = Append(csvRows,
                            [label |-> inflight[i].temp, via |-> "manual"])
       /\ \A i \in 1..Len(inflight) :
            (inflight[i].op = "set_temperature" /\ ServiceDone(i, TRUE)) =>
               actTarget' = inflight[i].temp]_vars

\* With the mode off, a set_temperature has set the override, recorded its
\* value through the manual path and reached the actuator.
C2_Witness ==
    /\ lastOp.op = "service_done" /\ lastOp.out = "set_temperature"
    /\ hvac_mode = HVAC_MODE_OFF
    /\ preset_mode = PRESET_LEARNING_CONTROLLING
    /\ is_override_active
    /\ override_end_time = t0 + 60
    /\ target_temperature = lastOp.arg
    /\ actTarget = lastOp.arg
    /\ \E k \in 1..Len(csvRows) : csvRows[k] = [label |-> lastOp.arg, via |-> "manual"]

C8_SetPresetModeFrame ==
    [][\A p \in PresetInputs : SetPresetMode(p) =>
          /\ preset_mode' = (IF p \in PRESETS THEN p ELSE preset_mode)
          /\ UNCHANGED <<hvac_mode, is_override_active, override_end_time,
                         target_temperature, prediction_task, timers, csvRows,
                         csvExists>>]_vars

\* An invalid preset was handed in during an override in auto mode.
C8_Witness ==
    /\ lastOp = Op("set_preset_mode", NoTemp, "Invalid")
    /\ preset_mode = PRESET_CONTROLLING
    /\ hvac_mode = HVAC_MODE_AUTO
    /\ is_override_active

\* C9: while the preset is Controlling no row is collected for the log,
\* neither by set_temperature nor by the path that observes the actuator's
\* target: a step taken while the preset is Controlling starts no collection.
Collecting(s) == Cardinality({i \in 1..Len(s) : s[i].pc = "write"})
C9_NoRecordWhileControlling ==
    [][preset_mode = PRESET_CONTROLLING =>
          Collecting(inflight') <= Collecting(inflight)]_vars

\* C5: the live model reference a prediction reads designates a completely
\* fitted pipeline: while a tick's prediction is running, also concurrently
\* with the training job, MLCore.model is fitted.
C5_LiveModelFitted == InFlight("tick", "predict") => model.fitted

C7_LiveAfterSaveFailure ==
    (trainPc = "done" /\ trainResult = "save_failed") => ~NotTrainedGuard

\* C10: the training log is append-only: every step leaves the rows it holds
\* in place and in order, and at most adds rows at the end.
C10_AppendOnly == [][IsPrefix(csvRows, csvRows')]_vars

\* After a restart the log still starts with the rows it held before and
\* ends with a row appended in this run.
C10_Witness ==
    /\ restarts = 1
    /\ lifecycle = "up"
    /\ trainPc = "done"
    /\ Len(csvRows) >= 2
    /\ csvRows[1].via = "historic"
    /\ csvRows[Len(csvRows)].via \in {"manual", "observed"}
    /\ lastOp.op = "write_done"

\* C11: when the prediction of a tick fails (async_predict_temperature returns
\* None), the target keeps its value and the cycle sends no set_temperature
\* call to the actuator: the loop ends without a coroutine at the service call.
C11_FailedPredictionKeepsTarget ==
    [][\A i \in 1..Len(inflight) :
          (PredictDone(i) /\ PredictTemperatureSync(model) = NoTemp) =>
             /\ target_temperature' = target_temperature
             /\ actTarget' = actTarget
             /\ inflight' = RemoveAt(inflight, i)]_vars

\* In auto mode with a trained model a prediction has failed; the target is
\* the one the user set before the tick.
C11_Witness ==
    /\ lastOp = Op("predict_done", NoTemp, "failed")
    /\ hvac_mode = HVAC_MODE_AUTO
    /\ is_trained
    /\ target_temperature \in TempInputs
    /\ ~InFlight("tick", "service")

C13_OneTimerIffAuto ==
    [][\A m \in HvacModeInputs : SetHvacMode(m) =>
          /\ Cardinality(timers') <= 1
          /\ (timers' /= {}) <=> (hvac_mode' = HVAC_MODE_AUTO)
          /\ hvac_mode' = HVAC_MODE_AUTO =>
                /\ timers' = {now + 5}
                /\ prediction_task' = now + 5
          /\ hvac_mode' /= HVAC_MODE_AUTO => prediction_task' = NoTime]_vars

\* set_hvac_mode(auto) in auto mode has replaced the timer that was due at
\* minute 10 by one due 5 minutes from now.
C13_Witness ==
    /\ lastOp = Op("set_hvac_mode", NoTemp, HVAC_MODE_AUTO)
    /\ now = SCAN_INTERVAL + 1
    /\ timers = {now + SCAN_INTERVAL}
    /\ lastState.state = HVAC_MODE_AUTO

\* C14: a failure while a row is appended to the log is swallowed: the write
\* returns normally and the row is dropped (the log is as it was), the
\* override that set_temperature set stays in place, and set_temperature goes
\* on to forward its value to the actuator.
C14_WriteFailureSwallowed ==
    [][\A i \in 1..Len(inflight) :
          /\ WriteDone(i, FALSE) =>
                /\ UNCHANGED <<csvRows, csvExists, is_override_active,
                               override_end_time, target_temperature>>
                /\ inflight[i].op = "set_temperature" =>
                      inflight' = ReplaceAt(inflight, i,
                          Coro("set_temperature", "service", inflight[i].temp))
                /\ inflight[i].op /= "set_temperature" =>
                      inflight' = RemoveAt(inflight, i)
          /\ (inflight[i].op = "set_temperature" /\ ServiceDone(i, TRUE)) =>
                actTarget' = inflight[i].temp]_vars

\* The write of a set_temperature's row has failed: the row is not in the
\* log, the override is set and the value is about to be forwarded.
C14_Witness ==
    /\ lastOp.op = "write_done" /\ lastOp.out = "dropped"
    /\ csvRows = <<>>
    /\ is_override_active
    /\ override_end_time = t0 + OverrideDuration
    /\ target_temperature = lastOp.arg
    /\ inflight = <<Coro("set_temperature", "service", lastOp.arg)>>

\* C15: the training job never raises: every failure in it (no data file, an
\* unreadable one, fewer than 20 rows, a failure of the timestamp parsing or
\* of the fit, a failure of the save) is returned to the caller as a failure
\* result.
C15_TrainNeverRaises == trainResult /= "raised"

\* C16: the feature encoding is total and maps every missing or unavailable
\* reading (no state object, state "unavailable", state "unknown") to the one
\* token "unknown", on the path that builds a training row and on the path
\* that builds the input of a prediction.
MissingReadings == {NoStateObject, STATE_UNAVAILABLE, STATE_UNKNOWN}
C16_MissingEncodedUnknown ==
    [][/\ CollectDataPointRow =>
            \A e \in SensorEntities :
                sensor_states[e] \in MissingReadings => data_row'[e] = "unknown"
       /\ PredictionSensorData =>
            \A e \in SensorEntities :
                sensor_states[e] \in MissingReadings => sensor_data'[e] = "unknown"]_vars

\* C17: a training job that does not succeed (no or unreadable data, too few
\* rows, a failure of the feature engineering or of the fit) leaves the live
\* model and the trained flag exactly as they were when it started.
C17_FailedTrainKeepsLive ==
    (trainPc = "done"
       /\ trainResult \in {"no_file", "unreadable", "insufficient", "raised"}) =>
        /\ model = trainBefore.model
        /\ is_trained = trainBefore.is_trained

\* C18: a failure of the actuator's set_temperature call during
\* set_temperature or during a tick does not propagate out of the operation:
\* whatever the outcome of the call, the operation runs to its end, where it
\* publishes the entity's state.
C18_ServiceFailureContained ==
    [][\A i \in 1..Len(inflight), ok \in BOOLEAN :
          ServiceDone(i, ok) =>
             /\ lastOp'.op = "service_done"
             /\ lastState' = HaState(hvac_mode, target_temperature, preset_mode)]_vars

\* C19: in every reachable state, also right after the restore of the last
\* state at set-up and after any set_hvac_mode, the mode is off or auto.
C19_ModeOffOrAuto == hvac_mode \in {HVAC_MODE_OFF, HVAC_MODE_AUTO}

\* C20: in every reachable state of the running entity, also right after the
\* restore of a state that was persisted while the mode was off, the preset
\* is Controlling or Learning & Controlling.
C20_PresetValid == lifecycle = "up" => preset_mode \in PRESETS

\* C21: every row of the training log has its values in the column order of
\* the header written when the log was created (timestamp, one column per
\* sensor in a fixed order, target_temperature), also the rows appended after
\* a restart that rebuilt the sensor list.
C21_RowsInHeaderOrder ==
    \A k \in 1..Len(csvRowFields) : csvRowFields[k] = csvHeader

\* C22: the prediction path derives time_sin, time_cos and day_of_week with
\* the same weekday convention and the same computation as the training path:
\* for the timestamp of a running prediction both paths yield the same three
\* derived values, and the prediction path's encoding does not fail.
C22_SameDerivedFeatures ==
    InFlight("tick", "predict") =>
        /\ PredictDerivedFeatures(now).ok
        /\ PredictDerivedFeatures(now) = TrainDerivedFeatures(now)

\* C24: whenever no controller operation is in flight, the target equals the
\* value of the last set_temperature call the controller issued to the
\* actuator, whatever the interleaving of set_temperature and the tick at
\* their awaits.
C24_TargetIsLastSent ==
    (inflight = <<>> /\ lastSent /= NoTemp) => target_temperature = lastSent

\* C25: a change of the actuator's target that the controller's own
\* set_temperature call caused (for a tick's prediction or for a manual
\* value) is not taken up by the path that observes the actuator: the
\* completion of the controller's call starts no collection of a row, so the
\* log grows only from manual set_temperature calls and from changes made
\* outside the controller.
Observing(s) == Cardinality({i \in 1..Len(s) : s[i].op = "observe"})
C25_OwnCallNotObserved ==
    [][\A i \in 1..Len(inflight), ok \in BOOLEAN :
          ServiceDone(i, ok) => Observing(inflight') <= Observing(inflight)]_vars

\* C23 (as claimed): while the mode is auto (ever since the set_temperature at
\* t0) and the model is trained, the override is cleared no later than 5
\* minutes after t0 + 60; and the override is cleared only by a tick.
C23_ClearedWithinOneInterval ==
    /\ [](( /\ hvac_mode = HVAC_MODE_AUTO /\ autoSinceOverride
            /\ is_trained /\ is_override_active) => now <= t0 + 60 + 5)
    /\ [][(is_override_active /\ ~is_override_active') => TickFire]_vars

\* C23 (amended): while the mode is auto and the model is trained, an
\* override set at t0 is cleared by the first tick that fires at or after
\* t0 + 60; in auto mode exactly one tick timer is installed and its next
\* tick is due within 5 minutes, each set_hvac_mode(auto) re-arming it to 5
\* minutes after the call; and the override is cleared only by such a tick,
\* never by a timer of its own, by set_hvac_mode or by set_preset_mode.
C23_ClearedByDueTick ==
    /\ []((lifecycle = "up" /\ hvac_mode = HVAC_MODE_AUTO) =>
            /\ timers = {prediction_task}
            /\ now <= prediction_task
            /\ prediction_task <= now + 5)
    /\ [][/\ ( /\ TickFire /\ hvac_mode = HVAC_MODE_AUTO /\ is_trained
               /\ is_override_active /\ now >= t0 + 60) => ~is_override_active'
          /\ (is_override_active /\ ~is_override_active') =>
                /\ TickFire
                /\ hvac_mode = HVAC_MODE_AUTO /\ is_trained
                /\ now >= t0 + 60
                /\ UNCHANGED <<hvac_mode, preset_mode>>]_vars

\* With the mode auto ever since the set_temperature at t0, re-armed by
\* set_hvac_mode(auto), the override is still active more than 5 minutes
\* after t0 + 60, and the tick that clears it is due now.
C23_Witness ==
    /\ t0 /= NoTime
    /\ now > t0 + 60 + 5
    /\ hvac_mode = HVAC_MODE_AUTO /\ autoSinceOverride
    /\ is_trained /\ is_override_active
    /\ timers = {now}

=============================================================================
